---- MODULE Spec2Model ----
(***************************************************************************)
(* Model of the NPO extractors of youtube_dl/extractor/npo.py:             *)
(*   NPOIE._get_info          (the on-demand resolver, mode "vod")         *)
(*   NPOLiveIE._real_extract  (the live resolver, mode "live")             *)
(* One resolution is one behaviour.  Every network request is a step; the  *)
(* answer of the remote end is chosen with \E from a small set.            *)
(*                                                                         *)
(* Representation.  A Python string is a TLA+ string, a missing key or     *)
(* None is the value None.  An optional number is a sequence of length at  *)
(* most one (<<>> is missing/None).  A URL is the sequence of its lexical  *)
(* pieces ("/" is always a piece of its own), so that the substring test   *)
(* and the regular expression of the source are computed on it; an         *)
(* optional URL is a sequence of length at most one holding a URL.         *)
(***************************************************************************)
EXTENDS Integers, Sequences, FiniteSets, TLC

VARIABLES
    mode,       \* which extractor runs: "vod" (NPOIE) or "live" (NPOLiveIE)
    pc,         \* position in the extractor
    arg,        \* the identifier matched from the URL (video_id / display_id)
    webpage,    \* NPOLiveIE: the channel page, once downloaded
    metadata,   \* the metadata document, once downloaded
    video_id,   \* NPOIE: local video_id after line 156; NPOLiveIE: live_id
    title,      \* NPOIE: local title after line 163
    token,      \* the token returned by _get_token
    items,      \* NPOIE: the format listing, items[0] of the listing JSON
    num,        \* index of the loop iteration about to run (0-based)
    formats,    \* the list of format descriptors collected so far
    requests,   \* history: the requests issued before the loops, in order
    last,       \* history: what the latest loop iteration saw and appended
    result,     \* the returned info dict, once returned
    error       \* the exception that left the extractor, if any

vars == <<mode, pc, arg, webpage, metadata, video_id, title, token, items, num,
          formats, requests, last, result, error>>

(***************************************************************************)
(* Bounds of the model.                                                    *)
(***************************************************************************)
MaxItems == 2      \* longest format listing
MaxStreams == 2    \* longest metadata "streams" list
MaxSub == 2        \* most sub-formats one manifest expands to

None == "<None>"

(***************************************************************************)
(* Python truthiness.                                                      *)
(***************************************************************************)
TruthyStr(s) == s # None /\ s # ""

TruthyNum(o) == o # <<>> /\ o[1] # 0

\* an optional URL: missing, or the empty string, is falsy
TruthyUrl(o) == o # <<>> /\ o[1] # <<>>

(***************************************************************************)
(* Format descriptors.                                                     *)
(***************************************************************************)
Format(u, fid, q, e, p) ==
    [url |-> u, format_id |-> fid, quality |-> q, ext |-> e, preference |-> p]

(***************************************************************************)
(* Strings and URLs.                                                       *)
(***************************************************************************)
RECURSIVE Join(_)
\* the text of a sequence of pieces
Join(ps) == IF ps = <<>> THEN "" ELSE Head(ps) \o Join(Tail(ps))

\* pat occurs in s, starting at piece i
OccursAt(pat, s, i) ==
    /\ i >= 1
    /\ i + Len(pat) - 1 <= Len(s)
    /\ SubSeq(s, i, i + Len(pat) - 1) = pat

\* Python's  pat in s
Contains(pat, s) == \E i \in 1..Len(s) : OccursAt(pat, s, i)

\* the text ".asf" tested at line 220
DotAsf == <<".", "asf">>

\* the literal part of the pattern of line 183, video/ida/
VideoIda == <<"video", "/", "ida", "/">>

\* where the pattern video/ida/([^/]+) matches: the literal part at i, and at
\* least one piece other than "/" after it
MatchesAt(s, i) ==
    /\ OccursAt(VideoIda, s, i)
    /\ i + Len(VideoIda) <= Len(s)
    /\ s[i + Len(VideoIda)] # "/"

\* the last piece of the longest run of pieces other than "/" that begins at j
RunEnd(s, j) ==
    CHOOSE k \in j..Len(s) :
        /\ \A m \in j..k : s[m] # "/"
        /\ (k = Len(s) \/ s[k + 1] = "/")

\* the search of lines 182-184 with the group written (.+): the capture runs
\* to the end of the URL
SearchFormatIdGreedy(s) ==
    IF \E i \in 1..Len(s) : MatchesAt(s, i)
    THEN LET i == CHOOSE i \in 1..Len(s) :
                      MatchesAt(s, i) /\ \A j \in 1..(i - 1) : ~MatchesAt(s, j)
         IN  Join(SubSeq(s, i + Len(VideoIda), Len(s)))
    ELSE None

\* self._search_regex(r'video/ida/([^/]+)', item_url, 'format id', default=None):
\* group 1 of the leftmost match, or None
SearchFormatId(s) ==
    IF \E i \in 1..Len(s) : MatchesAt(s, i)
    THEN LET i == CHOOSE i \in 1..Len(s) :
                      MatchesAt(s, i) /\ \A j \in 1..(i - 1) : ~MatchesAt(s, j)
             b == i + Len(VideoIda)
         IN  Join(SubSeq(s, b, RunEnd(s, b)))
    ELSE None

(***************************************************************************)
(* Quality ranking.                                                        *)
(***************************************************************************)
\* the table of line 171
QualityIds ==
    <<"adaptive", "wmv_sb", "h264_sb", "wmv_bb", "h264_bb", "wvc1_std", "h264_std">>

\* utils.qualities(ids)(qid): the 0-based position of qid in ids, -1 when absent
qualities(ids, qid) ==
    IF \E i \in 1..Len(ids) : ids[i] = qid
    THEN (CHOOSE i \in 1..Len(ids) :
              ids[i] = qid /\ \A j \in 1..(i - 1) : ids[j] # qid) - 1
    ELSE -1

quality(format_id) == qualities(QualityIds, format_id)

(***************************************************************************)
(* Sorting (InfoExtractor._sort_formats).                                  *)
(***************************************************************************)
\* a missing quality ranks below every quality, a missing preference is neutral
QualityOf(f) == IF f.quality = <<>> THEN -1 ELSE f.quality[1]

PreferenceOf(f) == IF f.preference = <<>> THEN 0 ELSE f.preference[1]

\* a is ranked strictly before b
RankedBefore(a, b) ==
    \/ QualityOf(a) > QualityOf(b)
    \/ QualityOf(a) = QualityOf(b) /\ PreferenceOf(a) > PreferenceOf(b)

\* x put into the ranked list s, behind everything it is not ranked before
InsertRanked(s, x) ==
    LET first == IF \E i \in 1..Len(s) : RankedBefore(x, s[i])
                 THEN CHOOSE i \in 1..Len(s) :
                          RankedBefore(x, s[i])
                          /\ \A j \in 1..(i - 1) : ~RankedBefore(x, s[j])
                 ELSE Len(s) + 1
    IN  SubSeq(s, 1, first - 1) \o <<x>> \o SubSeq(s, first, Len(s))

RECURSIVE sort_formats(_)
\* quality descending, then preference, then list order
sort_formats(fs) ==
    IF fs = <<>> THEN <<>>
    ELSE InsertRanked(sort_formats(SubSeq(fs, 1, Len(fs) - 1)), fs[Len(fs)])

(***************************************************************************)
(* What the remote end can answer.                                         *)
(* The lists the loops run over (the format listing, the metadata          *)
(* "streams") are held by their length: an entry is read once, by the      *)
(* iteration that reaches it, and is drawn when that iteration runs.       *)
(***************************************************************************)
VideoIds == {"POMS_WNL_853698"}

ChannelIds == {"npo-1"}

\* NPOIE: the metadata document (the keys the extractor reads).  The sub-title,
\* which only lines 160-163 read, is varied on the documents without prid and
\* tt888; every other combination of the keys is there.
VodMetadataDocs ==
    {doc \in [prid : {None, "", "POW_00996502"},
              titel : {"Tegenlicht"},
              aflevering_titel : {None, "", "Tegenlicht", "Afrika"},
              pubopties : {<<>>, <<"h264_bb">>},
              streams : 0..MaxStreams,
              tt888 : {None, "ja", "nee"}] :
        doc.aflevering_titel = None \/ (doc.prid = None /\ doc.tt888 = None)}

Tokens == {"tok"}

\* a failed download: the ExtractorError and what caused it
\* (status 0: the cause is no HTTP error)
DownloadError(status, body) ==
    [msg |-> "download failed", expected |-> FALSE, status |-> status, body |-> body]

NoError == [msg |-> None, expected |-> FALSE, status |-> 0, body |-> None]

\* item URLs of the format listing
UrlBB == <<"http:", "/", "ida", "/", "video", "/", "ida", "/", "h264", "_bb", "/", "a", "?", "x">>

UrlPlain == <<"http:", "/", "ida", "/", "video", "/", "a", "?", "x">>

ItemUrls == {<<>>, << <<>> >>, <<UrlBB>>, <<UrlPlain>>}

Items == [url : ItemUrls]

\* bodies of a failed stream JSON download: not JSON, or JSON with errorstring
Bodies == {"not json", None, "", "Dit programma is niet beschikbaar"}

\* self._parse_json(body, video_id, fatal=False) or {}, then .get('errorstring')
ErrorString(body) == IF body = "not json" THEN None ELSE body

VideoUrl == <<"http:", "/", "cdn", "/", "v">>

\* the stream JSON of one item: every combination of the two error codes on
\* an otherwise complete answer, and answers without a URL
StreamInfos ==
    {info \in [error_code : {<<>>, <<0>>, <<1>>},
               errorcode : {<<>>, <<0>>, <<1>>},
               url : {<<>>, << <<>> >>, <<VideoUrl>>},
               family : {"adaptive", "h264"}] :
        \/ info.url = <<VideoUrl>>
        \/ info.error_code = <<>> /\ info.errorcode = <<>> /\ info.family = "h264"}

\* what one manifest expands to: variant j of n
SubFormat(proto, j) ==
    Format(<<proto, "/", ToString(j)>>, proto \o "-" \o ToString(j), <<>>, "mp4", <<>>)

SubFormats(proto, n) == [j \in 1..n |-> SubFormat(proto, j)]

ExpandError == [msg |-> "Unable to download manifest", expected |-> FALSE,
                status |-> 0, body |-> None]

\* _extract_m3u8_formats / _extract_f4m_formats: the manifest is downloaded and
\* gives its sub-formats; a failed download raises, unless the call passes
\* fatal=False, and then it gives no formats
ExpandManifest(proto, fatal) ==
    {[expand |-> "failed", formats |-> <<>>,
      raised |-> IF fatal THEN ExpandError ELSE NoError]} \cup
    {[expand |-> "ok", formats |-> SubFormats(proto, n), raised |-> NoError] :
         n \in 0..MaxSub}

\* history record of one loop iteration
Seen(loop, idx, entry, asked, answer, expand, produced) ==
    [loop |-> loop, idx |-> idx, entry |-> entry, asked |-> asked,
     answer |-> answer, expand |-> expand, produced |-> produced]

\* an answer the iteration got: a JSON object ("info"), a playlist ("asx"),
\* or a failed download ("error")
Answer(tag, val) == [tag |-> tag, val |-> val]

NoAnswer == Answer("none", <<>>)

Request(kind, key) == [kind |-> kind, key |-> key]

(***************************************************************************)
(* Initial state: an extractor has matched a URL and is about to run.      *)
(***************************************************************************)
Init ==
    /\ mode \in {"vod", "live"}
    /\ arg \in (IF mode = "vod" THEN VideoIds ELSE ChannelIds)
    /\ pc = "start"
    /\ webpage = <<>>
    /\ metadata = <<>>
    /\ video_id = None
    /\ title = None
    /\ token = None
    /\ items = 0
    /\ num = 0
    /\ formats = <<>>
    /\ requests = <<>>
    /\ last = <<>>
    /\ result = <<>>
    /\ error = NoError

\* an exception leaves the extractor
Raise(e) ==
    /\ pc' = "failed"
    /\ error' = e

(***************************************************************************)
(* NPOIE._get_info                                                         *)
(***************************************************************************)
\* lines 160-163 without the comparison with the title
MergedTitleAlways(titel, sub_title) ==
    IF TruthyStr(sub_title) THEN titel \o ": " \o sub_title ELSE titel

\* lines 160-163
MergedTitle(titel, sub_title) ==
    IF TruthyStr(sub_title) /\ sub_title # titel
    THEN titel \o ": " \o sub_title
    ELSE titel

\* line 156 without the override: the input identifier is kept
ActualIdKeepsInput(prid, id) == id

\* line 156
ActualId(prid, id) == IF TruthyStr(prid) THEN prid ELSE id

\* lines 146-163: download the metadata, pick the id, build the title
VodMetadata ==
    /\ mode = "vod" /\ pc = "start"
    /\ requests' = Append(requests, Request("metadata", arg))
    /\ \/ /\ Raise(DownloadError(0, None))
          /\ UNCHANGED <<metadata, video_id, title>>
       \/ \E doc \in VodMetadataDocs :
            /\ metadata' = doc
            /\ video_id' = ActualId(doc.prid, arg)
            /\ title' = MergedTitle(doc.titel, doc.aflevering_titel)
            /\ pc' = "token"
            /\ UNCHANGED error
    /\ UNCHANGED <<mode, arg, webpage, token, items, num, formats, last, result>>

\* where the extractor goes when the listing loop is over (or not entered)
AfterItems == IF metadata.streams > 0 THEN "streams" ELSE "sort"

\* line 165: _get_token(video_id), lines 19-22; then line 169-170
VodToken ==
    /\ mode = "vod" /\ pc = "token"
    /\ requests' = Append(requests, Request("token", video_id))
    /\ \/ /\ Raise(DownloadError(0, None))
          /\ UNCHANGED token
       \/ \E t \in Tokens :
            /\ token' = t
            /\ pc' = IF metadata.pubopties # <<>> THEN "listing" ELSE AfterItems
            /\ UNCHANGED error
    /\ UNCHANGED <<mode, arg, webpage, metadata, video_id, title, items, num, formats,
                   last, result>>

\* lines 172-177: download the format listing
VodListing ==
    /\ mode = "vod" /\ pc = "listing"
    /\ requests' = Append(requests, Request("formats", video_id))
    /\ \/ /\ Raise(DownloadError(0, None))
          /\ UNCHANGED items
       \/ \E n \in 0..MaxItems :
            /\ items' = n
            /\ pc' = IF n > 0 THEN "items" ELSE AfterItems
            /\ UNCHANGED error
    /\ num' = 0
    /\ UNCHANGED <<mode, arg, webpage, metadata, video_id, title, token, formats, last,
                   result>>

\* lines 197 and 309 with the second field name forgotten
ErrorFlaggedFirstOnly(info) == TruthyNum(info.error_code)

\* lines 197 and 309: the dual error-code test
ErrorFlagged(info) == TruthyNum(info.error_code) \/ TruthyNum(info.errorcode)

\* lines 189-196 without the test of the status code
StreamJsonErrorAnyStatus(e) ==
    IF TruthyStr(ErrorString(e.body))
    THEN [msg |-> ErrorString(e.body), expected |-> TRUE, status |-> 0, body |-> None]
    ELSE e

\* lines 189-196: what leaves the except block for the download error e
StreamJsonError(e) ==
    IF e.status = 404 /\ TruthyStr(ErrorString(e.body))
    THEN [msg |-> ErrorString(e.body), expected |-> TRUE, status |-> 0, body |-> None]
    ELSE e

\* the ways the download of line 186 can fail
StreamJsonFailures ==
    {DownloadError(0, None)} \cup
    {DownloadError(st, b) : st \in {404, 500}, b \in Bodies}

\* the outcome of one loop iteration: the requests it issued, the last answer
\* it got, how a manifest expansion ended, the descriptors it appended and the
\* exception it raised
Outcome(asked, answer, expand, produced, raised) ==
    [asked |-> asked, answer |-> answer, expand |-> expand,
     produced |-> produced, raised |-> raised]

\* lines 199-212, for the stream JSON info of an item whose URL gave format_id
VodItemFormats(info, format_id) ==
    IF ErrorFlagged(info) \/ ~TruthyUrl(info.url)
    THEN {Outcome(<<"stream_json">>, Answer("info", info), "none", <<>>, NoError)}
    ELSE IF info.family = "adaptive"
    THEN \* _extract_m3u8_formats(..., fatal=False)
         {Outcome(<<"stream_json", "m3u8">>, Answer("info", info), x.expand, x.formats,
                  x.raised) : x \in ExpandManifest("hls", FALSE)}
    ELSE {Outcome(<<"stream_json">>, Answer("info", info), "none",
                  <<Format(info.url[1], format_id, <<quality(format_id)>>, None, <<>>)>>,
                  NoError)}

\* lines 179-212: one iteration of the listing loop
VodItemOutcomes(item) ==
    IF ~TruthyUrl(item.url)
    THEN {Outcome(<<>>, NoAnswer, "none", <<>>, NoError)}
    ELSE {Outcome(<<"stream_json">>, Answer("error", e), "none", <<>>, StreamJsonError(e)) :
              e \in StreamJsonFailures} \cup
         UNION {VodItemFormats(info, SearchFormatId(item.url[1])) : info \in StreamInfos}

\* the effect of a loop iteration with outcome o on entry, and where it goes
Iterate(loop, entry, o, count, after) ==
    /\ last' = Seen(loop, num, entry, o.asked, o.answer, o.expand, o.produced)
    /\ formats' = formats \o o.produced
    /\ IF o.raised # NoError
       THEN Raise(o.raised) /\ UNCHANGED num
       ELSE /\ pc' = IF num + 1 < count THEN loop ELSE after
            /\ num' = IF num + 1 < count THEN num + 1 ELSE 0
            /\ UNCHANGED error

\* lines 178-212
VodItem ==
    /\ mode = "vod" /\ pc = "items" /\ num < items
    /\ \E item \in Items : \E o \in VodItemOutcomes(item) :
           Iterate("items", item, o, items, AfterItems)
    /\ UNCHANGED <<mode, arg, webpage, metadata, video_id, title, token, items, requests,
                   result>>

\* URLs of the metadata "streams" entries
UrlWmv == <<"http:", "/", "s", "/", "a", ".", "wmv">>

UrlAsf == <<"http:", "/", "s", "/", "a", ".", "asf", "?", "x">>

UrlAsfNoDot == <<"http:", "/", "s", "/", "asf">>

\* the entries of the metadata "streams" list
VodStreams ==
    {[url |-> <<>>, formaat |-> None, kwaliteit |-> <<1>>],
     [url |-> << <<>> >>, formaat |-> "wmv", kwaliteit |-> <<5>>],
     [url |-> <<UrlWmv>>, formaat |-> "wmv", kwaliteit |-> <<5>>],
     [url |-> <<UrlAsfNoDot>>, formaat |-> None, kwaliteit |-> <<>>],
     [url |-> <<UrlAsf>>, formaat |-> None, kwaliteit |-> <<1>>]}

Mms1 == <<"mms:", "/", "s", "/", "1">>

Mms2 == <<"mms:", "/", "s", "/", "2">>

\* an ASX playlist: the href of each ENTRY/Ref node, in document order
AsxDocs ==
    {<<>>, << <<Mms1>> >>, << <<Mms1>>, <<Mms2>> >>, << <<>> >>, << << <<>> >> >>,
     << <<>>, <<Mms2>> >>}

\* lines 230-240 reading the last ENTRY/Ref node instead of the first
VodAsxFormatsLastRef(stream, asx) ==
    IF asx = <<>> \/ ~TruthyUrl(asx[Len(asx)])
    THEN {Outcome(<<"asx">>, Answer("asx", asx), "none", <<>>, NoError)}
    ELSE {Outcome(<<"asx">>, Answer("asx", asx), "none",
                  <<Format(asx[Len(asx)][1], None, stream.kwaliteit,
                           IF stream.formaat = None THEN "asf" ELSE stream.formaat,
                           <<>>)>>,
                  NoError)}

\* lines 230-240, for the downloaded playlist asx
VodAsxFormats(stream, asx) ==
    IF asx = <<>> \/ ~TruthyUrl(asx[1])
    THEN {Outcome(<<"asx">>, Answer("asx", asx), "none", <<>>, NoError)}
    ELSE {Outcome(<<"asx">>, Answer("asx", asx), "none",
                  <<Format(asx[1][1], None, stream.kwaliteit,
                           IF stream.formaat = None THEN "asf" ELSE stream.formaat,
                           <<>>)>>,
                  NoError)}

\* lines 217-240: one iteration of the streams loop
VodStreamOutcomes(stream) ==
    IF ~TruthyUrl(stream.url)
    THEN {Outcome(<<>>, NoAnswer, "none", <<>>, NoError)}
    ELSE IF ~Contains(DotAsf, stream.url[1])
    THEN {Outcome(<<>>, NoAnswer, "none",
                  <<Format(stream.url[1], None, stream.kwaliteit, None, <<>>)>>,
                  NoError)}
    ELSE {Outcome(<<"asx">>, Answer("error", DownloadError(0, None)), "none", <<>>,
                  DownloadError(0, None))} \cup
         UNION {VodAsxFormats(stream, asx) : asx \in AsxDocs}

\* lines 216-240
VodStream ==
    /\ mode = "vod" /\ pc = "streams" /\ num < metadata.streams
    /\ \E stream \in VodStreams : \E o \in VodStreamOutcomes(stream) :
           Iterate("streams", stream, o, metadata.streams, "sort")
    /\ UNCHANGED <<mode, arg, webpage, metadata, video_id, title, token, items, requests,
                   result>>

\* lines 244-249 testing the truth value of tt888 instead of comparing it
SubtitlesWhenSet(meta, id) ==
    IF TruthyStr(meta.tt888)
    THEN <<[lang |-> "nl", ext |-> "vtt",
            url |-> <<"http://tt888.omroep.nl/tt888/", id>>]>>
    ELSE <<>>

\* lines 244-249
Subtitles(meta, id) ==
    IF meta.tt888 = "ja"
    THEN <<[lang |-> "nl", ext |-> "vtt",
            url |-> <<"http://tt888.omroep.nl/tt888/", id>>]>>
    ELSE <<>>

\* lines 242-260 without the call of line 242
VodFinishUnsorted ==
    /\ mode = "vod" /\ pc = "sort"
    /\ last' = Seen("sort", 0, <<>>, <<>>, NoAnswer, "none", formats)
    /\ result' = <<[id |-> video_id, display_id |-> None, title |-> title,
                    formats |-> formats, subtitles |-> Subtitles(metadata, video_id),
                    is_live |-> FALSE]>>
    /\ pc' = "done"
    /\ UNCHANGED <<mode, arg, webpage, metadata, video_id, title, token, items, num,
                   formats, requests, error>>

\* lines 242-260: sort, and return the info dict
VodFinish ==
    /\ mode = "vod" /\ pc = "sort"
    /\ last' = Seen("sort", 0, <<>>, <<>>, NoAnswer, "none", formats)
    /\ formats' = sort_formats(formats)
    /\ result' = <<[id |-> video_id, display_id |-> None, title |-> title,
                    formats |-> formats', subtitles |-> Subtitles(metadata, video_id),
                    is_live |-> FALSE]>>
    /\ pc' = "done"
    /\ UNCHANGED <<mode, arg, webpage, metadata, video_id, title, token, items, num,
                   requests, error>>

(***************************************************************************)
(* NPOLiveIE._real_extract                                                 *)
(***************************************************************************)
Quote == "<quote>"

LiveIds == {"LI_NEDERLAND1_136692"}

\* the channel page, in pieces: with and without the data-prid attribute
Webpages ==
    {<<"<div ", "data-prid=", Quote, id, Quote, ">">> : id \in LiveIds} \cup
    {<<"<div ", "data-prid=", Quote, Quote, ">">>, <<"<div ", ">">>}

\* where the pattern data-prid="([^"]+)" matches
PridAt(page, i) ==
    /\ OccursAt(<<"data-prid=", Quote>>, page, i)
    /\ i + 3 <= Len(page)
    /\ page[i + 2] # Quote
    /\ page[i + 3] = Quote

\* lines 287-288: _search_regex(r'data-prid="([^"]+)"', webpage, 'live id'),
\* None standing for the RegexNotFoundError it raises
SearchLiveId(page) ==
    IF \E i \in 1..Len(page) : PridAt(page, i)
    THEN page[(CHOOSE i \in 1..Len(page) :
                   PridAt(page, i) /\ \A j \in 1..(i - 1) : ~PridAt(page, j)) + 2]
    ELSE None

RegexNotFound == [msg |-> "Unable to extract live id", expected |-> FALSE,
                  status |-> 0, body |-> None]

\* lines 283-288: download the channel page, find the live id
LivePage ==
    /\ mode = "live" /\ pc = "start"
    /\ requests' = Append(requests, Request("webpage", arg))
    /\ \/ /\ Raise(DownloadError(0, None))
          /\ UNCHANGED <<webpage, video_id>>
       \/ \E page \in Webpages :
            /\ webpage' = page
            /\ video_id' = SearchLiveId(page)
            /\ IF SearchLiveId(page) = None
               THEN Raise(RegexNotFound)
               ELSE pc' = "metadata" /\ UNCHANGED error
    /\ UNCHANGED <<mode, arg, metadata, title, token, items, num, formats, last,
                   result>>

\* NPOLiveIE: the metadata document (the keys the extractor reads)
LiveMetadataDocs ==
    [prid : {None},
     titel : {"Nederland 1"},
     aflevering_titel : {None},
     pubopties : {<<>>},
     streams : 0..MaxStreams,
     tt888 : {None}]

\* lines 290-292
LiveMetadata ==
    /\ mode = "live" /\ pc = "metadata"
    /\ requests' = Append(requests, Request("metadata", video_id))
    /\ \/ /\ Raise(DownloadError(0, None))
          /\ UNCHANGED metadata
       \/ \E doc \in LiveMetadataDocs :
            /\ metadata' = doc
            /\ pc' = "token"
            /\ UNCHANGED error
    /\ UNCHANGED <<mode, arg, webpage, video_id, title, token, items, num, formats, last,
                   result>>

\* LiveToken with the token requested for the live identifier
LiveTokenByLiveId ==
    /\ mode = "live" /\ pc = "token"
    /\ requests' = Append(requests, Request("token", video_id))
    /\ \/ /\ Raise(DownloadError(0, None))
          /\ UNCHANGED token
       \/ \E t \in Tokens :
            /\ token' = t
            /\ pc' = IF metadata.streams > 0 THEN "streams" ELSE "sort"
            /\ UNCHANGED error
    /\ UNCHANGED <<mode, arg, webpage, metadata, video_id, title, items, num, formats,
                   last, result>>

\* line 294: _get_token(display_id), lines 19-22; then lines 298-299
LiveToken ==
    /\ mode = "live" /\ pc = "token"
    /\ requests' = Append(requests, Request("token", arg))
    /\ \/ /\ Raise(DownloadError(0, None))
          /\ UNCHANGED token
       \/ \E t \in Tokens :
            /\ token' = t
            /\ pc' = IF metadata.streams > 0 THEN "streams" ELSE "sort"
            /\ UNCHANGED error
    /\ UNCHANGED <<mode, arg, webpage, metadata, video_id, title, items, num, formats,
                   last, result>>

\* str.lower on the letters the stream types are written with
LowerChar(c) ==
    CASE c = "S" -> "s"
      [] c = "M" -> "m"
      [] c = "H" -> "h"
      [] c = "D" -> "d"
      [] c = "L" -> "l"
      [] OTHER -> c

\* line 301 without .lower()
LowerForgotten(chars) == Join(chars)

\* line 301: stream.get('type').lower(), the type given by its characters
Lower(chars) == Join([i \in 1..Len(chars) |-> LowerChar(chars[i])])

\* the entries of the live metadata "streams" list
LiveStreams ==
    [type : {<<"s", "s">>, <<"M", "s">>, <<"h", "d", "s">>, <<"H", "L", "S">>,
             <<"r", "t", "m", "p">>},
     url : {"http://livestreams.omroep.nl/live/npo/tvlive/ned1"}]

\* line 303
Unsupported(stream_type) == stream_type \in {"ss", "ms"}

\* the answer of the play-URL endpoint
LiveStreamInfos ==
    [error_code : {<<>>, <<0>>, <<1>>},
     errorcode : {<<>>, <<0>>, <<1>>},
     stream : {<<"http:", "/", "aapi", "/", "play">>}]

LiveUrl == <<"http:", "/", "live", "/", "ned1">>

\* what the download of lines 311-315 returns: a URL, an empty string, or
\* nothing when the download failed (fatal=False)
StreamUrls == {<<>>, << <<>> >>, <<LiveUrl>>}

\* the sub-formats left as the expansion gave them
DeprioritizedNot(fs) == fs

\* line 322
Deprioritized(fs) == [i \in 1..Len(fs) |-> [fs[i] EXCEPT !.preference = <<-1>>]]

\* lines 318-330, for the stream URL of a stream of type stream_type
LiveFormats(stream_type, info, stream_url) ==
    LET asked == <<"aapi", "stream_url">>
    IN  IF stream_type = "hds"
        THEN \* _extract_f4m_formats(stream_url, display_id)
             {Outcome(asked \o <<"f4m">>, Answer("info", info), x.expand,
                      Deprioritized(x.formats), x.raised) :
                  x \in ExpandManifest("hds", TRUE)}
        ELSE IF stream_type = "hls"
        THEN \* _extract_m3u8_formats(stream_url, display_id, 'mp4')
             {Outcome(asked \o <<"m3u8">>, Answer("info", info), x.expand, x.formats,
                      x.raised) : x \in ExpandManifest("hls", TRUE)}
        ELSE {Outcome(asked, Answer("info", info), "none",
                      <<Format(stream_url, None, <<>>, None, <<-10>>)>>, NoError)}

\* lines 305-330, for the play-URL answer info
LiveInfoOutcomes(stream_type, info) ==
    IF ErrorFlagged(info)
    THEN {Outcome(<<"aapi">>, Answer("info", info), "none", <<>>, NoError)}
    ELSE UNION {IF ~TruthyUrl(u)
                THEN {Outcome(<<"aapi", "stream_url">>, Answer("info", info), "none", <<>>,
                              NoError)}
                ELSE LiveFormats(stream_type, info, u[1]) : u \in StreamUrls}

\* lines 301-330: one iteration of the streams loop
LiveStreamOutcomes(stream) ==
    IF Unsupported(Lower(stream.type))
    THEN {Outcome(<<>>, NoAnswer, "none", <<>>, NoError)}
    ELSE {Outcome(<<"aapi">>, Answer("error", DownloadError(0, None)), "none", <<>>,
                  DownloadError(0, None))} \cup
         UNION {LiveInfoOutcomes(Lower(stream.type), info) : info \in LiveStreamInfos}

\* lines 300-330
LiveStream ==
    /\ mode = "live" /\ pc = "streams" /\ num < metadata.streams
    /\ \E stream \in LiveStreams : \E o \in LiveStreamOutcomes(stream) :
           Iterate("streams", stream, o, metadata.streams, "sort")
    /\ UNCHANGED <<mode, arg, webpage, metadata, video_id, title, token, items, requests,
                   result>>

\* the moments a resolution can run at, as _live_title formats them
Timestamps == {"2016-01-01 12:00", "2016-01-02 08:30"}

\* InfoExtractor._live_title
live_title(name, now) == name \o " " \o now

\* lines 332-342: sort, and return the info dict
LiveFinish ==
    /\ mode = "live" /\ pc = "sort"
    /\ last' = Seen("sort", 0, <<>>, <<>>, NoAnswer, "none", formats)
    /\ formats' = sort_formats(formats)
    /\ \E now \in Timestamps :
           result' = <<[id |-> video_id, display_id |-> arg,
                        title |-> live_title(metadata.titel, now),
                        formats |-> formats', subtitles |-> <<>>,
                        is_live |-> TRUE]>>
    /\ pc' = "done"
    /\ UNCHANGED <<mode, arg, webpage, metadata, video_id, title, token, items, num,
                   requests, error>>

NextVod == VodMetadata \/ VodToken \/ VodListing \/ VodItem \/ VodStream \/ VodFinish

NextLive == LivePage \/ LiveMetadata \/ LiveToken \/ LiveStream \/ LiveFinish

Next == NextVod \/ NextLive

Spec == Init /\ [][Next]_vars

(***************************************************************************)
(* Properties of the on-demand resolver.                                   *)
(***************************************************************************)
\* the requests of one kind issued so far
RequestsOf(kind) == {i \in 1..Len(requests) : requests[i].kind = kind}

VodReturned == mode = "vod" /\ pc = "done"

\* C1: in the on-demand resolver, once the metadata document is there, the id
\* in use is its prid when that is non-empty and the input identifier
\* otherwise: the token request and the format-listing request are keyed by
\* it, the returned id is it, the subtitle URL is built from it, and the
\* metadata was requested exactly once, under the input identifier.
PridOverridesId ==
    (mode = "vod" /\ metadata # <<>>) =>
        LET id == IF metadata.prid \notin {None, ""} THEN metadata.prid ELSE arg
        IN  /\ \A i \in RequestsOf("token") \cup RequestsOf("formats") :
                   requests[i].key = id
            /\ Cardinality(RequestsOf("metadata")) = 1
            /\ \A i \in RequestsOf("metadata") : requests[i].key = arg
            /\ Cardinality(RequestsOf("token")) <= 1
            /\ Cardinality(RequestsOf("formats")) <= 1
            /\ pc = "done" =>
                   /\ result[1].id = id
                   /\ metadata.prid \notin {None, ""} => result[1].id # arg
                   /\ \A k \in 1..Len(result[1].subtitles) :
                          result[1].subtitles[k].url = <<"http://tt888.omroep.nl/tt888/", id>>

\* a record returned under an overriding prid, after a token request, a
\* listing request and with a subtitle entry
PridOverridesIdWitness ==
    /\ VodReturned
    /\ metadata.prid = "POW_00996502"
    /\ result[1].id = "POW_00996502"
    /\ RequestsOf("token") # {} /\ RequestsOf("formats") # {}
    /\ Len(result[1].subtitles) = 1

\* C2: in the on-demand resolver the returned title is titel when
\* aflevering_titel is absent, empty or equal to titel, and titel, ": " and
\* aflevering_titel otherwise.
TitleMerged ==
    VodReturned =>
        LET t == metadata.titel
            sub == metadata.aflevering_titel
        IN  result[1].title = IF sub \in {None, "", t} THEN t ELSE t \o ": " \o sub

\* a record returned with a merged title
TitleMergedWitness ==
    /\ VodReturned
    /\ metadata.aflevering_titel = "Afrika"
    /\ result[1].title = "Tegenlicht: Afrika"


(***************************************************************************)
(* Properties of both resolvers.                                           *)
(***************************************************************************)
Qualities(fs) == [i \in 1..Len(fs) |-> QualityOf(fs[i])]

RankOf(f) == <<QualityOf(f), PreferenceOf(f)>>

\* out holds the descriptors of in, by quality descending, then by preference
\* descending, descriptors of equal rank in the order they have in in
RankedStably(in, out) ==
    /\ Len(out) = Len(in)
    /\ \A i, j \in 1..Len(out) :
           i < j =>
               \/ QualityOf(out[i]) > QualityOf(out[j])
               \/ /\ QualityOf(out[i]) = QualityOf(out[j])
                  /\ PreferenceOf(out[i]) >= PreferenceOf(out[j])
    /\ \A r \in {RankOf(in[i]) : i \in 1..Len(in)} \cup {RankOf(out[i]) : i \in 1..Len(out)} :
           SelectSeq(out, LAMBDA f : RankOf(f) = r) = SelectSeq(in, LAMBDA f : RankOf(f) = r)

\* C3: in both resolvers the formats of the returned record are the collected
\* descriptors, reordered by quality descending, ties by preference and then
\* by the order of collection.
FormatsRanked ==
    pc = "done" =>
        /\ last.loop = "sort"
        /\ RankedStably(last.produced, result[1].formats)
        /\ formats = result[1].formats

\* three descriptors collected with qualities 4, 1, 5 are returned as 5, 4, 1
FormatsRankedWitness ==
    /\ pc = "done"
    /\ Qualities(last.produced) = <<4, 1, 5>>
    /\ Qualities(result[1].formats) = <<5, 4, 1>>

InLoop == last # <<>> /\ last.loop \in {"items", "streams"}

\* the extractor went on after the latest iteration
WentOn ==
    /\ error = NoError
    /\ pc \in {"items", "streams", "sort"}
    /\ pc = last.loop <=>
           last.idx + 1 < (IF last.loop = "items" THEN items ELSE metadata.streams)

\* C4: in both resolvers an item whose stream-info answer has a truthy
\* error_code or a truthy errorcode gets no descriptor, and the resolution
\* goes on with the next item.
ErrorCodeSkips ==
    (InLoop /\ last.answer.tag = "info"
        /\ (last.answer.val.error_code \notin {<<>>, <<0>>}
            \/ last.answer.val.errorcode \notin {<<>>, <<0>>})) =>
        /\ last.produced = <<>>
        /\ WentOn

\* an item flagged by errorcode alone is skipped and the next item is due
ErrorCodeSkipsWitness ==
    /\ InLoop /\ mode = "vod" /\ last.loop = "items"
    /\ last.answer.tag = "info"
    /\ last.answer.val.error_code = <<>> /\ last.answer.val.errorcode = <<1>>
    /\ last.answer.val.url = <<VideoUrl>>
    /\ last.produced = <<>>
    /\ pc = "items"


(***************************************************************************)
(* The metadata "streams" list of the on-demand resolver.                  *)
(***************************************************************************)
InVodStreams == mode = "vod" /\ InLoop /\ last.loop = "streams"

\* the URL u has the text ".asf" in it
ReferencesAsf(u) == \E i \in 1..(Len(u) - 1) : u[i] = "." /\ u[i + 1] = "asf"

\* C5 as claimed: an entry whose URL has no ".asf" in it gets exactly one
\* descriptor, with that URL, and no playlist is fetched; for an entry whose
\* URL has ".asf" in it the playlist is fetched and the descriptor's URL is
\* the href of the first ENTRY/Ref node, or there is no descriptor when the
\* playlist has no such node.
StreamsEntryAsClaimed ==
    (InVodStreams /\ last.entry.url # <<>>) =>
        LET u == last.entry.url[1]
        IN  IF ~ReferencesAsf(u)
            THEN /\ Len(last.produced) = 1
                 /\ last.produced[1].url = u
                 /\ last.asked = <<>>
            ELSE /\ last.asked = <<"asx">>
                 /\ last.answer.tag = "asx"
                 /\ IF last.answer.val = <<>>
                    THEN last.produced = <<>>
                    ELSE /\ Len(last.produced) = 1
                         /\ <<last.produced[1].url>> = last.answer.val[1]

\* C5, amended: an entry whose URL is missing or empty gets no descriptor and
\* no request.  An entry with a non-empty URL without ".asf" gets exactly one
\* descriptor, with that URL, and no playlist is fetched.  For an entry with
\* ".asf" in its URL the playlist is requested: when the download fails the
\* resolution fails; otherwise the entry gets one descriptor, whose URL is the
\* href of the first ENTRY/Ref node, when that node exists and has a non-empty
\* href, and no descriptor when it does not.
StreamsEntry ==
    InVodStreams =>
        IF last.entry.url \in {<<>>, << <<>> >>}
        THEN last.produced = <<>> /\ last.asked = <<>> /\ WentOn
        ELSE LET u == last.entry.url[1]
             IN  IF ~ReferencesAsf(u)
                 THEN /\ Len(last.produced) = 1
                      /\ last.produced[1].url = u
                      /\ last.asked = <<>>
                      /\ WentOn
                 ELSE /\ last.asked = <<"asx">>
                      /\ last.answer.tag \in {"asx", "error"}
                      /\ last.answer.tag = "error" =>
                             last.produced = <<>> /\ pc = "failed" /\ result = <<>>
                      /\ last.answer.tag = "asx" =>
                             /\ WentOn
                             /\ IF /\ last.answer.val # <<>>
                                   /\ last.answer.val[1] \notin {<<>>, << <<>> >>}
                                THEN /\ Len(last.produced) = 1
                                     /\ last.produced[1].url = last.answer.val[1][1]
                                ELSE last.produced = <<>>

\* a playlist with two Ref nodes gave the descriptor the href of the first
StreamsEntryWitness ==
    /\ InVodStreams
    /\ last.entry.url = <<UrlAsf>>
    /\ last.answer = Answer("asx", << <<Mms1>>, <<Mms2>> >>)
    /\ Len(last.produced) = 1
    /\ last.produced[1].url = Mms1


(***************************************************************************)
(* More properties.                                                        *)
(***************************************************************************)
InLiveStreams == mode = "live" /\ InLoop /\ last.loop = "streams"

\* "ss" and "ms", in every spelling
SmoothTypes == {<<a, b>> : a \in {"s", "S", "m", "M"}, b \in {"s", "S"}}

\* C6: in the live resolver a stream whose type is "ss" or "ms", in any
\* letter case, gets no descriptor and no request, and the resolution goes on
\* with the next stream.
SmoothStreamingSkipped ==
    (InLiveStreams /\ last.entry.type \in SmoothTypes) =>
        /\ last.produced = <<>>
        /\ last.asked = <<>>
        /\ WentOn

\* a stream of type "Ms" was passed over and the next stream is due
SmoothStreamingSkippedWitness ==
    /\ InLiveStreams
    /\ last.entry.type = <<"M", "s">>
    /\ last.asked = <<>>
    /\ last.produced = <<>>
    /\ pc = "streams"

\* C7: in the on-demand resolver the returned subtitles are one entry, of
\* language "nl" and extension "vtt", when tt888 is "ja", and are empty for
\* every other value of tt888 and when it is absent.
SubtitlesOnJa ==
    VodReturned =>
        IF metadata.tt888 = "ja"
        THEN /\ Len(result[1].subtitles) = 1
             /\ result[1].subtitles[1].lang = "nl"
             /\ result[1].subtitles[1].ext = "vtt"
        ELSE result[1].subtitles = <<>>

\* a record returned with the one Dutch subtitle entry
SubtitlesOnJaWitness ==
    /\ VodReturned
    /\ metadata.tt888 = "ja"
    /\ Len(result[1].subtitles) = 1
    /\ result[1].subtitles[1].lang = "nl"

\* C8: in the on-demand resolver, when the stream-info download of an item
\* fails, no record is returned; the error that leaves the resolver carries
\* the errorstring of the body and is marked expected when the status is 404
\* and the body is JSON with a non-empty errorstring, and is the download
\* error itself in every other case.
StreamInfoFailure ==
    (mode = "vod" /\ InLoop /\ last.loop = "items" /\ last.answer.tag = "error") =>
        LET e == last.answer.val
        IN  /\ pc = "failed"
            /\ result = <<>>
            /\ IF e.status = 404 /\ e.body \notin {"not json", None, ""}
               THEN /\ error.msg = e.body
                    /\ error.expected
               ELSE error = e

\* a 404 with an errorstring has become an expected error with that message
StreamInfoFailureWitness ==
    /\ mode = "vod" /\ InLoop /\ last.loop = "items"
    /\ last.answer.tag = "error"
    /\ last.answer.val.status = 404
    /\ last.answer.val.body = "Dit programma is niet beschikbaar"
    /\ error.expected
    /\ error.msg = "Dit programma is niet beschikbaar"
    /\ pc = "failed"


\* C9 as claimed: in both resolvers a failed expansion of a manifest gives
\* that stream no formats and does not stop the resolution, which goes on with
\* the next item.
ExpansionFailureTolerated ==
    (InLoop /\ last.expand = "failed") =>
        /\ last.produced = <<>>
        /\ WentOn
        /\ pc # "failed"

\* the latest iteration of the listing loop appended one progressive format
ProgressiveAppended ==
    /\ mode = "vod" /\ InLoop /\ last.loop = "items"
    /\ last.answer.tag = "info"
    /\ last.answer.val.family # "adaptive"
    /\ Len(last.produced) = 1

\* C10 as claimed: the format_id of a progressive descriptor is the segment
\* after video/ida/ of the item URL, and the position of the item in the
\* listing when the URL has no such segment; it is never missing.
FormatIdAsClaimed ==
    ProgressiveAppended =>
        /\ last.entry.url = <<UrlBB>> => last.produced[1].format_id = "h264_bb"
        /\ last.entry.url = <<UrlPlain>> =>
               last.produced[1].format_id = ToString(last.idx)
        /\ last.produced[1].format_id # None

\* C10, amended: the format_id of a progressive descriptor is the segment
\* after video/ida/ of the item URL, and is missing (None) when the URL has no
\* such segment; the position of the item is not used for it.
FormatIdFromUrl ==
    ProgressiveAppended =>
        /\ last.entry.url = <<UrlBB>> => last.produced[1].format_id = "h264_bb"
        /\ last.entry.url = <<UrlPlain>> => last.produced[1].format_id = None
        /\ last.produced[1].format_id # ToString(last.idx)

\* the second item of a listing, its URL without the segment, got a
\* descriptor without format_id
FormatIdFromUrlWitness ==
    /\ ProgressiveAppended
    /\ last.idx = 1
    /\ last.entry.url = <<UrlPlain>>
    /\ last.produced[1].format_id = None



\* the value of the data-prid attribute of the downloaded channel page, None
\* while there is no page or no attribute in it
PagePrid ==
    IF Len(webpage) = 6 /\ webpage[2] = "data-prid=" THEN webpage[4] ELSE None

\* the three requests of a live run before its streams, in the order and
\* with the keys of the claim
LiveRequestPlan ==
    <<Request("webpage", arg), Request("metadata", PagePrid),
      Request("token", arg)>>

\* a request for a stream of the live metadata has been issued
LiveStreamAsked == InLiveStreams /\ last.asked # <<>>

\* C11: in the live resolver, at every point of a run, failed or not, the
\* requests issued so far before the streams are an initial part of: channel
\* page keyed by the channel identifier, metadata keyed by the live identifier
\* found in the page, token keyed by the channel identifier (so each is issued
\* at most once and in this order); all three have been issued before any
\* request for a stream; and the returned record has the live identifier as
\* id, the channel identifier as display_id, and is_live true.
LiveRequestOrder ==
    mode = "live" =>
        /\ Len(requests) <= 3
        /\ Len(requests) >= 2 => PagePrid \notin {None, ""}
        /\ \A i \in 1..Len(requests) : requests[i] = LiveRequestPlan[i]
        /\ (LiveStreamAsked \/ pc = "done") => Len(requests) = 3
        /\ pc = "done" =>
              /\ result[1].id = PagePrid
              /\ result[1].display_id = arg
              /\ result[1].is_live = TRUE

\* a live run returned its record after requests for streams gave it formats
LiveRequestOrderWitness ==
    /\ mode = "live" /\ pc = "done"
    /\ Len(requests) = 3
    /\ result[1].formats # <<>>
    /\ result[1].id = "LI_NEDERLAND1_136692"
    /\ result[1].display_id = "npo-1"


\* "hds" and "hls", in every spelling
HdsTypes == {<<a, b, c>> : a \in {"h", "H"}, b \in {"d", "D"}, c \in {"s", "S"}}

HlsTypes == {<<a, b, c>> : a \in {"h", "H"}, b \in {"l", "L"}, c \in {"s", "S"}}

\* the descriptors the latest live stream added
Added == {last.produced[i] : i \in 1..Len(last.produced)}

\* the live run returned its record
LiveReturned == mode = "live" /\ pc = "done"

\* C12: in the live resolver every descriptor added for an "hds" stream has
\* preference -1, every descriptor added for an "hls" stream has no preference
\* of its own, and every descriptor added for a stream of another type has
\* preference -10; and in the returned formats no descriptor of preference
\* -10 stands before a descriptor of equal quality that came from an "hds" or
\* "hls" stream.
LivePreferences ==
    /\ InLiveStreams =>
          /\ last.entry.type \in HdsTypes =>
                 \A f \in Added : f.preference = <<-1>>
          /\ last.entry.type \in HlsTypes =>
                 \A f \in Added : f.preference = <<>>
          /\ last.entry.type \notin HdsTypes \cup HlsTypes =>
                 \A f \in Added : f.preference = <<-10>>
    /\ LiveReturned =>
          \A i, j \in 1..Len(result[1].formats) :
              LET a == result[1].formats[i]
                  b == result[1].formats[j]
              IN  (/\ i < j
                   /\ a.preference = <<-10>>
                   /\ b.preference \in {<<-1>>, <<>>}) =>
                      a.quality # b.quality

\* a live run collected the one descriptor of an "rtmp" stream and then the
\* two sub-formats of an "hds" stream, and returned the sub-formats first
LivePreferencesWitness ==
    /\ LiveReturned
    /\ Len(last.produced) = 3
    /\ last.produced[1].preference = <<-10>>
    /\ last.produced[2].preference = <<-1>>
    /\ result[1].formats[1].preference = <<-1>>
    /\ result[1].formats[3] = last.produced[1]

====
